---- MODULE Spec2Model ----
(***************************************************************************)
(* Model of shasta_sdk.py: the retrying request executor                   *)
(* handle_request_with_retries and the resource functions that call it.    *)
(*                                                                         *)
(* One client runs one call at a time (the module is synchronous).  The    *)
(* server is the environment: every requests.request either yields a       *)
(* response with some status and body, or raises a transport error.        *)
(***************************************************************************)
EXTENDS Integers, Sequences, FiniteSets, TLC

VARIABLES
    globals,    \* the module-level names BASE_URL, MSP_ORG_ID, MAX_RETRIES, ...
    pc,         \* "idle" | "loop" | "check" | "done"
    fn,         \* the resource function being executed
    args,       \* the arguments that function was called with
    request,    \* the arguments handed to handle_request_with_retries
    retries,    \* the local variable retries
    response,   \* the local variable response (None before the first one)
    received,   \* status codes received by this call, in order
    trace,      \* requests issued and sleeps performed by this call, in order
    result,     \* how handle_request_with_retries ended (None while running)
    outcome,    \* how the resource function ended (None while running)
    prev        \* the previous completed call (None before the second call)

vars == <<globals, pc, fn, args, request, retries, response, received, trace,
          result, outcome, prev>>

-----------------------------------------------------------------------------
(* Python values *)

None == [type |-> "NoneType"]

Str(s) == [type |-> "str", value |-> s]

\* truth value of an Optional[str] in an `if` test
Truthy(v) == v.type # "NoneType" /\ v.value # ""

-----------------------------------------------------------------------------
(* Module constants, lines 5-15 *)

BASE_URL == "https://api-stg.shastacloud.com"

MSP_ORG_ID == "317"

BEARER_TOKEN == "your_bearer_token_here"

MAX_RETRIES == 5

RETRY_BACKOFF_FACTOR == 2

HEADERS == ("Authorization" :> "Bearer " \o BEARER_TOKEN)
           @@ ("Content-Type" :> "application/json")

Globals == [BASE_URL             |-> BASE_URL,
            MSP_ORG_ID           |-> MSP_ORG_ID,
            MAX_RETRIES          |-> MAX_RETRIES,
            RETRY_BACKOFF_FACTOR |-> RETRY_BACKOFF_FACTOR,
            HEADERS              |-> HEADERS]

-----------------------------------------------------------------------------
(* The environment: what one requests.request can produce *)

Statuses == {103, 200, 304, 404, 410, 429, 500}

Bodies == {"", "{}"}

\* Response.raise_for_status raises HTTPError exactly for 4xx and 5xx
RaisesForStatus(status) == 400 <= status /\ status < 600

\* Response.json() raises on a body that is not JSON
JsonDecodes(body) == body # ""

JsonValue(body) == IF body = "{}" THEN <<>> ELSE body

-----------------------------------------------------------------------------
(* handle_request_with_retries, lines 17-45 *)

\* variant: the loop stops one attempt early
LoopCondStrict(r) == r < globals.MAX_RETRIES

LoopCond(r) == r <= globals.MAX_RETRIES

\* variant: server errors are retried like rate limiting
IsRateLimitedOrServerError(status) == status = 429 \/ status >= 500

IsRateLimited(status) == status = 429

\* variant: linear instead of exponential backoff
WaitTimeLinear(r) == globals.RETRY_BACKOFF_FACTOR * r

WaitTime(r) == globals.RETRY_BACKOFF_FACTOR ^ r

RequestEvent == [ev      |-> "request",
                 method  |-> request.method,
                 url     |-> request.url,
                 headers |-> request.headers,
                 params  |-> request.params,
                 json    |-> request.json]

SleepEvent(seconds) == [ev |-> "sleep", seconds |-> seconds]

ExhaustedError ==
    [kind    |-> "Exception",
     message |-> "Failed after " \o ToString(globals.MAX_RETRIES)
                   \o " retries due to rate limiting."]

HTTPError(resp) == [kind |-> "HTTPError", response |-> resp]

TransportError == [kind |-> "ConnectionError"]

Returned(resp) == [kind |-> "return", response |-> resp]

RemoveFunctions == {"remove_business_org", "remove_venue", "remove_infrastructure"}

\* variant: a remove function answers an HTTP error with its status code
FinishSwallowing(f, res) ==
    IF f \in RemoveFunctions /\ res.kind = "HTTPError"
    THEN [kind |-> "return", value |-> res.response.status_code]
    ELSE IF res.kind # "return" THEN res
    ELSE IF f \in RemoveFunctions
         THEN [kind |-> "return", value |-> res.response.status_code]
         ELSE IF JsonDecodes(res.response.body)
              THEN [kind |-> "return", value |-> JsonValue(res.response.body)]
              ELSE [kind |-> "JSONDecodeError"]

\* what the resource function f makes of the executor's result res
Finish(f, res) ==
    IF res.kind # "return" THEN res
    ELSE IF f \in RemoveFunctions
         THEN [kind |-> "return", value |-> res.response.status_code]
         ELSE IF JsonDecodes(res.response.body)
              THEN [kind |-> "return", value |-> JsonValue(res.response.body)]
              ELSE [kind |-> "JSONDecodeError"]

\* variant: the attempt counter outlives the call
BeginKeepingRetries(f, a, method, url, params, json) ==
    /\ pc \in {"idle", "done"}
    /\ prev' = IF pc = "done"
               THEN [fn |-> fn, request |-> request, response |-> response,
                     outcome |-> outcome]
               ELSE prev
    /\ fn' = f
    /\ args' = a
    /\ request' = [method |-> method, url |-> url, headers |-> globals.HEADERS,
                   params |-> params, json |-> json]
    /\ response' = None
    /\ received' = <<>>
    /\ trace' = <<>>
    /\ result' = None
    /\ outcome' = None
    /\ pc' = "loop"
    /\ UNCHANGED <<globals, retries>>

\* entry of handle_request_with_retries, called by resource function f
Begin(f, a, method, url, params, json) ==
    /\ pc \in {"idle", "done"}
    /\ prev' = IF pc = "done"
               THEN [fn |-> fn, request |-> request, response |-> response,
                     outcome |-> outcome]
               ELSE prev
    /\ fn' = f
    /\ args' = a
    /\ request' = [method |-> method, url |-> url, headers |-> globals.HEADERS,
                   params |-> params, json |-> json]
    /\ retries' = 0
    /\ response' = None
    /\ received' = <<>>
    /\ trace' = <<>>
    /\ result' = None
    /\ outcome' = None
    /\ pc' = "loop"
    /\ UNCHANGED globals

\* line 35 true, line 36 yields a response
Request ==
    /\ pc = "loop"
    /\ LoopCond(retries)
    /\ \E s \in Statuses, b \in Bodies :
          /\ response' = [status_code |-> s, body |-> b]
          /\ received' = Append(received, s)
    /\ trace' = Append(trace, RequestEvent)
    /\ pc' = "check"
    /\ UNCHANGED <<globals, fn, args, request, retries, result, outcome, prev>>

\* variant: a transport error is caught and the request retried
TransportFailureRetried ==
    /\ pc = "loop"
    /\ LoopCond(retries)
    /\ trace' = Append(trace, RequestEvent)
    /\ retries' = retries + 1
    /\ pc' = "loop"
    /\ UNCHANGED <<globals, fn, args, request, response, received, result, outcome, prev>>

\* line 35 true, line 36 raises: nothing in the function catches it
TransportFailure ==
    /\ pc = "loop"
    /\ LoopCond(retries)
    /\ trace' = Append(trace, RequestEvent)
    /\ result' = TransportError
    /\ outcome' = Finish(fn, TransportError)
    /\ pc' = "done"
    /\ UNCHANGED <<globals, fn, args, request, retries, response, received, prev>>

\* variant: no sleep after the 429 answer to the last permitted attempt
RateLimitedSkipLast ==
    /\ pc = "check"
    /\ IsRateLimited(response.status_code)
    /\ trace' = IF retries < globals.MAX_RETRIES
                THEN Append(trace, SleepEvent(WaitTime(retries)))
                ELSE trace
    /\ retries' = retries + 1
    /\ pc' = "loop"
    /\ UNCHANGED <<globals, fn, args, request, response, received, result, outcome, prev>>

\* lines 37-41
RateLimited ==
    /\ pc = "check"
    /\ IsRateLimited(response.status_code)
    /\ trace' = Append(trace, SleepEvent(WaitTime(retries)))
    /\ retries' = retries + 1
    /\ pc' = "loop"
    /\ UNCHANGED <<globals, fn, args, request, response, received, result, outcome, prev>>

\* lines 42-43, raise_for_status raises
HttpFailure ==
    /\ pc = "check"
    /\ ~IsRateLimited(response.status_code)
    /\ RaisesForStatus(response.status_code)
    /\ result' = HTTPError(response)
    /\ outcome' = Finish(fn, HTTPError(response))
    /\ pc' = "done"
    /\ UNCHANGED <<globals, fn, args, request, retries, response, received, trace, prev>>

\* lines 42-44, raise_for_status passes
Return ==
    /\ pc = "check"
    /\ ~IsRateLimited(response.status_code)
    /\ ~RaisesForStatus(response.status_code)
    /\ result' = Returned(response)
    /\ outcome' = Finish(fn, Returned(response))
    /\ pc' = "done"
    /\ UNCHANGED <<globals, fn, args, request, retries, response, received, trace, prev>>

\* line 35 false, line 45
Exhausted ==
    /\ pc = "loop"
    /\ ~LoopCond(retries)
    /\ result' = ExhaustedError
    /\ outcome' = Finish(fn, ExhaustedError)
    /\ pc' = "done"
    /\ UNCHANGED <<globals, fn, args, request, retries, response, received, trace, prev>>

-----------------------------------------------------------------------------
(* Arguments the resource functions are called with *)

\* resource ids range over 1..MaxId
MaxId == 1

OrgIds == 1..MaxId

VenueIds == 1..MaxId

InfraIds == 1..MaxId

Addresses == {"123 Main St", ""}

SearchQueries == {None, Str(""), Str("lobby")}

-----------------------------------------------------------------------------
(* Resource functions, lines 47-267 *)

get_business_orgs_params(offset, limit, order, order_by) ==
    [offset |-> offset, limit |-> limit, order |-> order, orderBy |-> order_by]

get_business_orgs ==
    Begin("get_business_orgs",
          [offset |-> 0, limit |-> 10, order |-> "DESC", order_by |-> "orgId"],
          "GET",
          globals.BASE_URL \o "/organization/" \o globals.MSP_ORG_ID \o "/child",
          get_business_orgs_params(0, 10, "DESC", "orgId"), None)

\* variant: the billing address is left empty like the other billing fields
create_business_org_payload_no_billing(org_display_name, org_type_id, parent_org_id, address) ==
    [orgDisplayName    |-> org_display_name,
     orgTypeId         |-> org_type_id,
     parentOrgId       |-> parent_org_id,
     phone             |-> "",
     notes             |-> "",
     billingRecipients |-> "",
     orgAddress        |-> [addressLine |-> address],
     billingAddress    |-> [addressLine |-> ""]]

create_business_org_payload(org_display_name, org_type_id, parent_org_id, address) ==
    [orgDisplayName    |-> org_display_name,
     orgTypeId         |-> org_type_id,
     parentOrgId       |-> parent_org_id,
     phone             |-> "",
     notes             |-> "",
     billingRecipients |-> "",
     orgAddress        |-> [addressLine |-> address],
     billingAddress    |-> [addressLine |-> address]]

create_business_org ==
    \E address \in Addresses :
        Begin("create_business_org",
              [org_display_name |-> "Acme", org_type_id |-> 3,
               parent_org_id |-> 317, address |-> address],
              "POST",
              globals.BASE_URL \o "/organization", None,
              create_business_org_payload("Acme", 3, 317, address))

find_business_org_params(search_query, offset, limit, order, order_by) ==
    [search |-> search_query, offset |-> offset, limit |-> limit,
     order |-> order, orderBy |-> order_by]

find_business_org ==
    Begin("find_business_org",
          [search_query |-> Str("Acme"), offset |-> 0, limit |-> 10,
           order |-> "DESC", order_by |-> "orgId"],
          "GET",
          globals.BASE_URL \o "/organization/" \o globals.MSP_ORG_ID \o "/child",
          find_business_org_params(Str("Acme"), 0, 10, "DESC", "orgId"), None)

remove_business_org ==
    \E org_id \in OrgIds :
        Begin("remove_business_org", [org_id |-> org_id], "DELETE",
              globals.BASE_URL \o "/organization/" \o ToString(org_id), None, None)

\* variant: "search" is always sent, as find_business_org does
get_venues_params_always(org_id, offset, limit, order, order_by, search_query) ==
    [orgId |-> org_id, offset |-> offset, limit |-> limit,
     order |-> order, orderBy |-> order_by, search |-> search_query]

get_venues_params(org_id, offset, limit, order, order_by, search_query) ==
    LET params == [orgId |-> org_id, offset |-> offset, limit |-> limit,
                   order |-> order, orderBy |-> order_by]
    IN  IF Truthy(search_query)
        THEN params @@ ("search" :> search_query)
        ELSE params

get_venues ==
    \E org_id \in OrgIds, search_query \in SearchQueries :
        Begin("get_venues",
              [org_id |-> org_id, offset |-> 0, limit |-> 10, order |-> "DESC",
               order_by |-> "venueId", search_query |-> search_query],
              "GET", globals.BASE_URL \o "/venues",
              get_venues_params(org_id, 0, 10, "DESC", "venueId", search_query),
              None)

create_venue_payload(org_id, venue_name, address) ==
    [orgId           |-> org_id,
     parentVenueId   |-> 0,
     venueName       |-> venue_name,
     state           |-> 1,
     venueType       |-> 1,
     venueAddress    |-> [addressLine |-> address],
     shippingAddress |-> [addressLine |-> address]]

create_venue ==
    \E org_id \in OrgIds :
        Begin("create_venue",
              [org_id |-> org_id, venue_name |-> "Lobby", address |-> "123 Main St"],
              "POST", globals.BASE_URL \o "/venues", None,
              create_venue_payload(org_id, "Lobby", "123 Main St"))

remove_venue ==
    \E venue_id \in VenueIds :
        Begin("remove_venue", [venue_id |-> venue_id], "DELETE",
              globals.BASE_URL \o "/venues/" \o ToString(venue_id), None, None)

get_infrastructure_by_org ==
    \E org_id \in OrgIds :
        Begin("get_infrastructure_by_org", [org_id |-> org_id], "GET",
              globals.BASE_URL \o "/infrastructure/organization/" \o ToString(org_id),
              None, None)

get_infrastructure_by_venue ==
    \E venue_id \in VenueIds :
        Begin("get_infrastructure_by_venue", [venue_id |-> venue_id], "GET",
              globals.BASE_URL \o "/infrastructure/venue/" \o ToString(venue_id),
              None, None)

get_infra_types ==
    Begin("get_infra_types", <<>>, "GET",
          globals.BASE_URL \o "/infrastructure/infratype",
          [orgId |-> globals.MSP_ORG_ID], None)

add_infrastructure_payload(org_id, venue_id, infra_type_id, mac_address, infra_display_name) ==
    [venueId          |-> venue_id,
     orgId            |-> org_id,
     infraTypeId      |-> infra_type_id,
     macAddress       |-> mac_address,
     serialNumber     |-> "",
     assetTag         |-> "",
     infraDisplayName |-> infra_display_name,
     sourceId         |-> 1,
     realInfra        |-> FALSE]

add_infrastructure ==
    \E org_id \in OrgIds, venue_id \in VenueIds :
        Begin("add_infrastructure",
              [org_id |-> org_id, venue_id |-> venue_id, infra_type_id |-> 1,
               mac_address |-> "00:11:22:33:44:55", infra_display_name |-> "ap-1"],
              "POST", globals.BASE_URL \o "/infrastructure",
              None,
              add_infrastructure_payload(org_id, venue_id, 1,
                                         "00:11:22:33:44:55", "ap-1"))

remove_infrastructure ==
    \E infra_id \in InfraIds :
        Begin("remove_infrastructure", [infra_id |-> infra_id], "DELETE",
              globals.BASE_URL \o "/infrastructure/" \o ToString(infra_id),
              None, None)

-----------------------------------------------------------------------------

Init ==
    /\ globals = Globals
    /\ pc = "idle"
    /\ fn = ""
    /\ args = None
    /\ request = None
    /\ retries = 0
    /\ response = None
    /\ received = <<>>
    /\ trace = <<>>
    /\ result = None
    /\ outcome = None
    /\ prev = None

Next ==
    \/ get_business_orgs
    \/ create_business_org
    \/ find_business_org
    \/ remove_business_org
    \/ get_venues
    \/ create_venue
    \/ remove_venue
    \/ get_infrastructure_by_org
    \/ get_infrastructure_by_venue
    \/ get_infra_types
    \/ add_infrastructure
    \/ remove_infrastructure
    \/ Request
    \/ TransportFailure
    \/ RateLimited
    \/ HttpFailure
    \/ Return
    \/ Exhausted

Spec == Init /\ [][Next]_vars

-----------------------------------------------------------------------------
(* Observations on the current call *)

RequestIndices == {i \in 1..Len(trace) : trace[i].ev = "request"}

SleepIndices == {i \in 1..Len(trace) : trace[i].ev = "sleep"}

NumRequests == Cardinality(RequestIndices)

NumDelays == Cardinality(SleepIndices)

IsSleep(e) == e.ev = "sleep"

\* the sleeps of the call, in order
Delays == [i \in 1..NumDelays |-> SelectSeq(trace, IsSleep)[i].seconds]

RECURSIVE SumSeq(_)
SumSeq(q) == IF q = <<>> THEN 0 ELSE q[1] + SumSeq(Tail(q))

Num429 == Cardinality({i \in 1..Len(received) : received[i] = 429})

All429(n) == Len(received) >= n /\ \A i \in 1..n : received[i] = 429

LastReceived == received[Len(received)]

Is2xx(status) == 200 <= status /\ status < 300

NotFoundClass == {404, 410}

\* the executor has ended, in the way named kind
Ended(kind) == pc = "done" /\ result.kind = kind

\* some request of the call got no response at all
TransportFailed == NumRequests = Len(received) + 1

-----------------------------------------------------------------------------
(* Claims *)

\* C1: for every k in 0..MAX_RETRIES, a call whose first k responses are 429
\* and whose response k+1 is 2xx returns that response after exactly k+1
\* requests and k delays, delay i (from 0) being RETRY_BACKOFF_FACTOR^i and
\* lying between request i+1 and request i+2.
C1_RetryThenSuccess ==
    \A k \in 0..MAX_RETRIES :
        (pc = "done" /\ Len(received) = k + 1 /\ All429(k) /\ Is2xx(received[k + 1]))
        => /\ result = Returned(response)
           /\ response.status_code = received[k + 1]
           /\ Len(trace) = 2 * k + 1
           /\ \A j \in 1..(k + 1) : trace[2 * j - 1].ev = "request"
           /\ \A i \in 0..(k - 1) :
                 trace[2 * i + 2] = SleepEvent(RETRY_BACKOFF_FACTOR ^ i)

C1_Witness ==
    /\ pc = "done"
    /\ received = <<429, 429, 429, 429, 429, 200>>
    /\ Ended("return")
    /\ Delays = <<1, 2, 4, 8, 16>>

\* C2: a call whose MAX_RETRIES + 1 attempts are all answered 429 issues
\* exactly MAX_RETRIES + 1 requests, never returns a response, and ends with
\* the retries-exhausted failure; that failure arises in no other way.
C2_Exhaustion ==
    /\ All429(MAX_RETRIES + 1)
       => /\ NumRequests = MAX_RETRIES + 1
          /\ Len(received) = MAX_RETRIES + 1
          /\ ~Ended("return")
          /\ pc = "done" => result = ExhaustedError
    /\ Ended("Exception")
       => /\ All429(MAX_RETRIES + 1)
          /\ NumRequests = MAX_RETRIES + 1
          /\ outcome = result

C2_Witness ==
    /\ pc = "done"
    /\ received = <<429, 429, 429, 429, 429, 429>>
    /\ Ended("Exception")
    /\ result.message = "Failed after 5 retries due to rate limiting."

\* C3: a 4xx/5xx response other than 429, on any attempt, ends the call in
\* the very next step with HTTPError carrying that response: no sleep, no
\* further request, and retries left as it was.
C3_HttpErrorAtOnce ==
    [][(pc = "check" /\ response.status_code # 429
                     /\ response.status_code \in 400..599)
       => /\ pc' = "done"
          /\ result' = HTTPError(response)
          /\ result'.response.status_code = response.status_code
          /\ outcome' = result'
          /\ trace' = trace
          /\ retries' = retries]_vars

C3_Witness ==
    /\ pc = "done"
    /\ Ended("HTTPError")
    /\ result.response.status_code = 500
    /\ received = <<429, 429, 500>>
    /\ retries = 2
    /\ trace[Len(trace)].ev = "request"

\* C4: a response is returned only if its status is 2xx; every response that
\* is neither 2xx nor 429 ends the call with HTTPError.
C4_OnlySuccessReturned ==
    /\ Ended("return") => Is2xx(result.response.status_code)
    /\ (pc = "done" /\ ~TransportFailed /\ Len(received) > 0
         /\ ~Is2xx(LastReceived) /\ LastReceived # 429)
       => Ended("HTTPError")

\* C5: a transport failure on any attempt ends the call with an error that
\* is neither HTTPError nor the retries-exhausted failure; the failed
\* request is the last thing the call did, and every delay before it
\* answered a 429.
C5_TransportPropagates ==
    TransportFailed
    => /\ pc = "done"
       /\ result = TransportError
       /\ result.kind \notin {"HTTPError", "Exception", "return"}
       /\ outcome = result
       /\ trace[Len(trace)].ev = "request"
       /\ NumDelays = Len(received)
       /\ retries = Len(received)

C5_Witness ==
    /\ TransportFailed
    /\ pc = "done"
    /\ retries = 3
    /\ Ended("ConnectionError")

\* C6: a remove call answered with a not-found-class status ends with
\* HTTPError carrying that status, never with a returned status code; a
\* repetition of the call answered the same way ends the same way.
C6_RemoveNotFound ==
    (pc = "done" /\ fn \in RemoveFunctions /\ ~TransportFailed
       /\ Len(received) > 0 /\ LastReceived \in NotFoundClass)
    => /\ outcome = HTTPError(response)
       /\ outcome.response.status_code = LastReceived
       /\ (prev # None /\ prev.fn = fn /\ prev.request = request
             /\ prev.response # None
             /\ prev.response.status_code = LastReceived)
          => /\ prev.outcome.kind = outcome.kind
             /\ prev.outcome.response.status_code = outcome.response.status_code

C6_Witness ==
    /\ pc = "done"
    /\ fn = "remove_infrastructure"
    /\ prev # None
    /\ prev.fn = fn
    /\ prev.response # None
    /\ prev.response.status_code = 404
    /\ received = <<429, 404>>
    /\ outcome.kind = "HTTPError"

GetVenuesBaseKeys == {"orgId", "offset", "limit", "order", "orderBy"}

\* C7: every request get_venues sends has exactly the parameters orgId,
\* offset, limit, order, orderBy when no search query was given, and these
\* plus "search", equal to the query, when a non-empty one was given.
C7_GetVenuesParams ==
    fn = "get_venues"
    => \A i \in RequestIndices :
          /\ trace[i].params.orgId = args.org_id
          /\ trace[i].params.offset = args.offset
          /\ trace[i].params.limit = args.limit
          /\ trace[i].params.order = args.order
          /\ trace[i].params.orderBy = args.order_by
          /\ args.search_query = None
             => DOMAIN trace[i].params = GetVenuesBaseKeys
          /\ (args.search_query # None /\ args.search_query.value # "")
             => /\ DOMAIN trace[i].params = GetVenuesBaseKeys \cup {"search"}
                /\ trace[i].params.search = args.search_query

C7_Witness ==
    /\ fn = "get_venues"
    /\ args.search_query = None
    /\ NumRequests >= 1
    /\ prev # None
    /\ prev.fn = "get_venues"
    /\ "search" \in DOMAIN prev.request.params

\* C8: every request create_business_org sends, retries included, is a POST
\* whose body has orgAddress.addressLine and billingAddress.addressLine both
\* equal to the address argument, and all of them carry the same body.
C8_CreateOrgBody ==
    fn = "create_business_org"
    => \A i \in RequestIndices :
          /\ trace[i].method = "POST"
          /\ trace[i].json.orgAddress.addressLine = args.address
          /\ trace[i].json.billingAddress.addressLine = args.address
          /\ \A j \in RequestIndices : trace[j].json = trace[i].json

C8_Witness ==
    /\ fn = "create_business_org"
    /\ args.address = "123 Main St"
    /\ NumRequests = 3
    /\ trace[5].json.billingAddress.addressLine = "123 Main St"

\* C9: whatever calls came before, a call counts its attempts from 0 (retries
\* is the number of delays of this call), its first delay is
\* RETRY_BACKOFF_FACTOR^0, it gives up only after MAX_RETRIES + 1 requests of
\* its own, and the module-level configuration is what it was at start.
C9_CallsIndependent ==
    /\ globals = Globals
    /\ pc # "idle"
       => /\ retries = NumDelays
          /\ NumDelays >= 1 => Delays[1] = RETRY_BACKOFF_FACTOR ^ 0
          /\ (pc = "loop" /\ trace = <<>>) => ENABLED Request
          /\ Ended("Exception") => NumRequests = MAX_RETRIES + 1

C9_Witness ==
    /\ prev # None
    /\ prev.outcome.kind = "Exception"
    /\ pc = "check"
    /\ NumRequests = 2
    /\ Delays = <<1>>

\* C10: the delays of a call are as many as its 429 responses, except while
\* the delay for the newest 429 is still to come; a call that exhausts its
\* retries has slept RETRY_BACKOFF_FACTOR^0 .. RETRY_BACKOFF_FACTOR^MAX_RETRIES,
\* 63 in all, and the last sleep is the last thing it did.
C10_DelayPer429 ==
    /\ pc \in {"loop", "done"} => NumDelays = Num429
    /\ pc = "check"
       => NumDelays = Num429 - (IF response.status_code = 429 THEN 1 ELSE 0)
    /\ \A i \in 1..NumDelays : Delays[i] = RETRY_BACKOFF_FACTOR ^ (i - 1)
    /\ Ended("Exception")
       => /\ NumDelays = MAX_RETRIES + 1
          /\ Delays = <<1, 2, 4, 8, 16, 32>>
          /\ SumSeq(Delays) = 63
          /\ trace[Len(trace)].ev = "sleep"

C10_Witness ==
    /\ Ended("Exception")
    /\ SumSeq(Delays) = 63
    /\ trace[Len(trace)] = SleepEvent(32)
    /\ NumRequests = 6

====
